---- MODULE Spec2Model ----
(***************************************************************************)
(* Model of api/services/auth.py (and its near-duplicate                   *)
(* api/securtity/authentication.py): password verification, login with     *)
(* token issuance, and the role checks of the Authorization dependency.    *)
(***************************************************************************)
EXTENDS Integers, Sequences, FiniteSets, TLC

VARIABLES
    users,      \* the external user store: identifier -> db_user dict (NoUser when absent)
    tokens,     \* every access token minted so far, in issuance order
    last,       \* the outcome of the most recent call into the module
    observed    \* the login failures a caller has seen: <<cause, error>>

vars == <<users, tokens, last, observed>>

\* ------------------------------------------------------------------ bounds
MaxTokens == 2
MaxSalt == 2

\* ------------------------------------------------------------- value sets
Identifiers == {"alice"}
Passwords == {"secret123", "hunter2"}
Salts == 1..MaxSalt
StoreRoles == {"admin", "seller", "customer"}
ClaimRoles == StoreRoles \cup {"guest", "Admin", ""}

None == "None"
NoUser == << >>
NoToken == << >>

IdOf(ident) == IF ident = "alice" THEN 1 ELSE 2
EmailOf(ident) == IF ident = "alice" THEN "alice@example.com" ELSE "bob@example.com"

\* ------------------------------------------------------- password hasher
\* A bcrypt digest is self-describing: scheme, salt, and a checksum that is a
\* function of (salt, secret).  A digest whose scheme passlib cannot identify
\* is modelled by MalformedDigest; a missing hash_password by NoneDigest.
Checksum(salt, secret) == <<salt, secret>>
MalformedDigest == [scheme |-> "unknown"]
NoneDigest == [scheme |-> None]

get_password_hash(password, salt) ==
    [scheme |-> "bcrypt", salt |-> salt, checksum |-> Checksum(salt, password)]

\* pwd_context.verify: False for a None hash, raises UnknownHashError for a
\* digest it cannot identify, otherwise recomputes the checksum with the
\* digest's salt and compares.
verify_password(plain_password, hashed_password) ==
    IF hashed_password = NoneDigest
    THEN [raised |-> None, value |-> FALSE]
    ELSE IF hashed_password.scheme # "bcrypt"
    THEN [raised |-> "UnknownHashError", value |-> FALSE]
    ELSE [raised |-> None,
          value |-> (Checksum(hashed_password.salt, plain_password)
                        = hashed_password.checksum)]

\* ------------------------------------------------------------ HTTP status
HTTP_401_UNAUTHORIZED == 401

\* ---------------------------------------------------------- dict helpers
\* dict.get(key): the value, or None when the key is missing
Get(d, key) == IF key \in DOMAIN d THEN d[key] ELSE None

\* `not db_user`: None and the empty dict are both falsy
Falsy(db_user) == DOMAIN db_user = {}

\* PublicStoredUser.model_validate(db_user).model_dump(): the public fields
PublicStoredUser(db_user) ==
    [id |-> db_user.id, username |-> db_user.username,
     email |-> db_user.email, role |-> db_user.role]

\* access_security.create_access_token(subject=..., expires_delta=...)
create_access_token(subject, jti) == [subject |-> subject, jti |-> jti]

\* ------------------------------------------------------------------ login
InvalidCredentials ==
    [exc |-> "HTTPException", status_code |-> HTTP_401_UNAUTHORIZED,
     detail |-> "User not found or credentials incorrect"]

Raise(err) ==
    [exc |-> err.exc, error |-> err, access_token |-> NoToken, cookie |-> NoToken]

\* Mutant: an absent user is reported with its own message.
login_distinct_detail(db_user, user, jti) ==
    IF Falsy(db_user)
    THEN Raise([exc |-> "HTTPException", status_code |-> HTTP_401_UNAUTHORIZED,
                detail |-> "User not found"])
    ELSE LET v == verify_password(user.password,
                      IF "hash_password" \in DOMAIN db_user
                      THEN db_user.hash_password ELSE NoneDigest)
         IN IF v.raised # None THEN Raise([exc |-> v.raised])
            ELSE IF ~v.value THEN Raise(InvalidCredentials)
            ELSE LET t == create_access_token(PublicStoredUser(db_user), jti)
                 IN [exc |-> None, error |-> [exc |-> None],
                     access_token |-> t, cookie |-> t]

\* Mutant: the password check is skipped for an existing user.
login_no_verify(db_user, user, jti) ==
    IF Falsy(db_user)
    THEN Raise(InvalidCredentials)
    ELSE LET t == create_access_token(PublicStoredUser(db_user), jti)
         IN [exc |-> None, error |-> [exc |-> None],
             access_token |-> t, cookie |-> t]

\* Mutant: the token's role is a default, not the record's role.
login_default_role(db_user, user, jti) ==
    IF Falsy(db_user)
    THEN Raise(InvalidCredentials)
    ELSE LET v == verify_password(user.password,
                      IF "hash_password" \in DOMAIN db_user
                      THEN db_user.hash_password ELSE NoneDigest)
         IN IF v.raised # None THEN Raise([exc |-> v.raised])
            ELSE IF ~v.value THEN Raise(InvalidCredentials)
            ELSE LET t == create_access_token(
                              [id |-> db_user.id, username |-> db_user.username,
                               email |-> db_user.email, role |-> "customer"], jti)
                 IN [exc |-> None, error |-> [exc |-> None],
                     access_token |-> t, cookie |-> t]

\* Authentication.login_and_set_access_token: the outcome of one call.  The
\* `or` short-circuits, so verify_password runs only for a truthy db_user and
\* an exception it raises is not caught here.
login_and_set_access_token(db_user, user, jti) ==
    IF Falsy(db_user)
    THEN Raise(InvalidCredentials)
    ELSE LET v == verify_password(user.password,
                      IF "hash_password" \in DOMAIN db_user
                      THEN db_user.hash_password ELSE NoneDigest)
         IN IF v.raised # None THEN Raise([exc |-> v.raised])
            ELSE IF ~v.value THEN Raise(InvalidCredentials)
            ELSE LET t == create_access_token(PublicStoredUser(db_user), jti)
                 IN [exc |-> None, error |-> [exc |-> None],
                     access_token |-> t, cookie |-> t]

\* ---------------------------------------------------------- authorization
\* Mutant: the role is looked up in the user store at check time.
AuthorizationFromStore(credentials) ==
    [auth_user_id |-> Get(credentials.subject, "id"),
     auth_user_name |-> Get(credentials.subject, "username"),
     auth_user_email |-> Get(credentials.subject, "email"),
     auth_user_role |->
        LET name == Get(credentials.subject, "username")
        IN IF name \in DOMAIN users /\ ~Falsy(users[name])
           THEN users[name].role ELSE None]

\* Authorization.__init__
Authorization(credentials) ==
    [auth_user_id |-> Get(credentials.subject, "id"),
     auth_user_name |-> Get(credentials.subject, "username"),
     auth_user_email |-> Get(credentials.subject, "email"),
     auth_user_role |-> Get(credentials.subject, "role")]

is_admin(self) == self.auth_user_role = "admin"

\* Mutant: deny-list instead of allow-list.
is_seller_denylist(self) ==
    LET role == self.auth_user_role IN role # "customer"

is_seller(self) ==
    LET role == self.auth_user_role IN role = "admin" \/ role = "seller"

\* Mutant: admin is not treated as a customer.
is_customer_exact(self) ==
    LET role == self.auth_user_role IN role = "customer"

is_customer(self) ==
    LET role == self.auth_user_role IN role = "admin" \/ role = "customer"

Returns == [exc |-> None]

InsufficientRole(name) ==
    [exc |-> "HTTPException", status_code |-> HTTP_401_UNAUTHORIZED,
     detail |-> name]

is_admin_or_raise(self) ==
    IF self.auth_user_role # "admin"
    THEN InsufficientRole("User does not have admin role")
    ELSE Returns

\* Mutant: the admin override is forgotten.
is_seller_or_raise_exact(self) ==
    LET role == self.auth_user_role
    IN IF role # "seller"
       THEN InsufficientRole("User does not have seller role")
       ELSE Returns

is_seller_or_raise(self) ==
    LET role == self.auth_user_role
    IN IF role # "admin" /\ role # "seller"
       THEN InsufficientRole("User does not have seller role")
       ELSE Returns

is_customer_or_raise(self) ==
    LET role == self.auth_user_role
    IN IF role # "admin" /\ role # "customer"
       THEN InsufficientRole("User does not have customer role")
       ELSE Returns

\* ---------------------------------------------------------------- actions
LoginCause(db_user, user) ==
    IF Falsy(db_user) THEN "absent"
    ELSE LET v == verify_password(user.password, db_user.hash_password)
         IN IF v.raised # None THEN "malformed"
            ELSE IF ~v.value THEN "mismatch" ELSE "match"

\* Mutant: a successful login re-hashes the password and writes it back.
LoginRehash(ident, password) ==
    LET db_user == users[ident]
        user == [username |-> ident, password |-> password]
        r == login_and_set_access_token(db_user, user, Len(tokens) + 1)
    IN /\ r.exc = None => Len(tokens) < MaxTokens
       /\ tokens' = IF r.exc = None THEN Append(tokens, r.access_token) ELSE tokens
       /\ last' = [op |-> "login", db_user |-> db_user, user |-> user,
                   exc |-> r.exc, error |-> r.error,
                   access_token |-> r.access_token, cookie |-> r.cookie]
       /\ observed' = IF r.exc = None THEN observed
                      ELSE observed \cup {<<LoginCause(db_user, user), r.error>>}
       /\ users' = IF r.exc = None
                   THEN [users EXCEPT ![ident].hash_password =
                            get_password_hash(password, MaxSalt)]
                   ELSE users

\* One login request: the route looks the identifier up in the store and
\* hands the result to login_and_set_access_token.
Login(ident, password) ==
    LET db_user == users[ident]
        user == [username |-> ident, password |-> password]
        r == login_and_set_access_token(db_user, user, Len(tokens) + 1)
    IN /\ r.exc = None => Len(tokens) < MaxTokens
       /\ tokens' = IF r.exc = None THEN Append(tokens, r.access_token) ELSE tokens
       /\ last' = [op |-> "login", db_user |-> db_user, user |-> user,
                   exc |-> r.exc, error |-> r.error,
                   access_token |-> r.access_token, cookie |-> r.cookie]
       /\ observed' = IF r.exc = None THEN observed
                      ELSE observed \cup {<<LoginCause(db_user, user), r.error>>}
       /\ UNCHANGED users

\* A request carrying token i reads a boolean role property.
BoolCheck(i, name, value) ==
    /\ last' = [op |-> name, credentials |-> tokens[i],
                exc |-> None, error |-> Returns, value |-> value]
    /\ UNCHANGED <<users, tokens, observed>>

\* A request carrying token i reads a raising role property.
RaiseCheck(i, name, r) ==
    /\ last' = [op |-> name, credentials |-> tokens[i],
                exc |-> r.exc, error |-> r]
    /\ UNCHANGED <<users, tokens, observed>>

IsAdmin(i) == BoolCheck(i, "is_admin", is_admin(Authorization(tokens[i])))
IsSeller(i) == BoolCheck(i, "is_seller", is_seller(Authorization(tokens[i])))
IsCustomer(i) == BoolCheck(i, "is_customer", is_customer(Authorization(tokens[i])))
IsAdminOrRaise(i) ==
    RaiseCheck(i, "is_admin_or_raise", is_admin_or_raise(Authorization(tokens[i])))
IsSellerOrRaise(i) ==
    RaiseCheck(i, "is_seller_or_raise", is_seller_or_raise(Authorization(tokens[i])))
IsCustomerOrRaise(i) ==
    RaiseCheck(i, "is_customer_or_raise", is_customer_or_raise(Authorization(tokens[i])))

\* --------------------------------------------- the external user store
StoreCreate(ident, role, password, salt) ==
    /\ Falsy(users[ident])
    /\ users' = [users EXCEPT ![ident] =
                    [id |-> IdOf(ident), username |-> ident, email |-> EmailOf(ident),
                     role |-> role,
                     hash_password |-> get_password_hash(password, salt)]]
    /\ UNCHANGED <<tokens, last, observed>>

StoreDelete(ident) ==
    /\ ~Falsy(users[ident])
    /\ users' = [users EXCEPT ![ident] = NoUser]
    /\ UNCHANGED <<tokens, last, observed>>

StoreSetRole(ident, role) ==
    /\ ~Falsy(users[ident])
    /\ users[ident].role # role
    /\ users' = [users EXCEPT ![ident].role = role]
    /\ UNCHANGED <<tokens, last, observed>>

StoreSetPassword(ident, password, salt) ==
    /\ ~Falsy(users[ident])
    /\ users[ident].hash_password # get_password_hash(password, salt)
    /\ users' = [users EXCEPT ![ident].hash_password =
                    get_password_hash(password, salt)]
    /\ UNCHANGED <<tokens, last, observed>>

StoreCorruptHash(ident) ==
    /\ ~Falsy(users[ident])
    /\ users[ident].hash_password # MalformedDigest
    /\ users' = [users EXCEPT ![ident].hash_password = MalformedDigest]
    /\ UNCHANGED <<tokens, last, observed>>

\* --------------------------------------------------------- specifications
Init ==
    /\ users = [ident \in Identifiers |-> NoUser]
    /\ tokens = << >>
    /\ last = [op |-> "init", exc |-> None]
    /\ observed = {}

Next ==
    \/ \E ident \in Identifiers, password \in Passwords : Login(ident, password)
    \/ \E i \in 1..Len(tokens) : IsAdmin(i)
    \/ \E i \in 1..Len(tokens) : IsSeller(i)
    \/ \E i \in 1..Len(tokens) : IsCustomer(i)
    \/ \E i \in 1..Len(tokens) : IsAdminOrRaise(i)
    \/ \E i \in 1..Len(tokens) : IsSellerOrRaise(i)
    \/ \E i \in 1..Len(tokens) : IsCustomerOrRaise(i)
    \/ \E ident \in Identifiers, role \in StoreRoles, password \in Passwords,
          salt \in Salts : StoreCreate(ident, role, password, salt)
    \/ \E ident \in Identifiers : StoreDelete(ident)
    \/ \E ident \in Identifiers, role \in StoreRoles : StoreSetRole(ident, role)
    \/ \E ident \in Identifiers, password \in Passwords, salt \in Salts :
          StoreSetPassword(ident, password, salt)
    \/ \E ident \in Identifiers : StoreCorruptHash(ident)

Spec == Init /\ [][Next]_vars

\* The role authorizer on its own: the credentials of a request are whatever
\* a verified token carries, including an unknown or a missing role.
Subjects ==
    UNION {
        {[id |-> IdOf(ident), username |-> ident, email |-> EmailOf(ident), role |-> r]
            : r \in ClaimRoles}
        \cup {[id |-> IdOf(ident), username |-> ident, email |-> EmailOf(ident)]}
        : ident \in Identifiers}

InitAuthz ==
    /\ users = [ident \in Identifiers |-> NoUser]
    /\ \E subj \in [1..MaxTokens -> Subjects] :
          tokens = [i \in 1..MaxTokens |-> create_access_token(subj[i], i)]
    /\ last = [op |-> "init", exc |-> None]
    /\ observed = {}

NextAuthz ==
    \/ \E i \in 1..Len(tokens) : IsAdmin(i)
    \/ \E i \in 1..Len(tokens) : IsSeller(i)
    \/ \E i \in 1..Len(tokens) : IsCustomer(i)
    \/ \E i \in 1..Len(tokens) : IsAdminOrRaise(i)
    \/ \E i \in 1..Len(tokens) : IsSellerOrRaise(i)
    \/ \E i \in 1..Len(tokens) : IsCustomerOrRaise(i)

SpecAuthz == InitAuthz /\ [][NextAuthz]_vars

\* ------------------------------------------------------------ properties
BoolOps == {"is_admin", "is_seller", "is_customer"}
RaiseOps == {"is_admin_or_raise", "is_seller_or_raise", "is_customer_or_raise"}

\* the role a check was made with, None when the claims carry no role
CheckedRole == Get(last.credentials.subject, "role")

\* the role hierarchy as the specification states it
RoleSatisfies(role, required) == role = "admin" \/ role = required

RequiredBy(op) ==
    IF op \in {"is_admin", "is_admin_or_raise"} THEN "admin"
    ELSE IF op \in {"is_seller", "is_seller_or_raise"} THEN "seller"
    ELSE "customer"

LastLoginVerifies ==
    /\ ~Falsy(last.db_user)
    /\ verify_password(last.user.password, last.db_user.hash_password).raised = None
    /\ verify_password(last.user.password, last.db_user.hash_password).value

LastLoginMismatch ==
    /\ ~Falsy(last.db_user)
    /\ verify_password(last.user.password, last.db_user.hash_password).raised = None
    /\ ~verify_password(last.user.password, last.db_user.hash_password).value

\* C1: a login with an absent user record and a login with an existing record
\* and a non-matching password give the caller the same error: same kind,
\* same status, same detail.
C1_SameErrorForAbsentAndMismatch ==
    \A a \in observed, b \in observed :
        (a[1] \in {"absent", "mismatch"} /\ b[1] \in {"absent", "mismatch"})
            => a[2] = b[2]

C1_Witness ==
    /\ \E a \in observed : a[1] = "absent"
    /\ \E b \in observed : b[1] = "mismatch"

\* C2: a token is issued (returned and set as the cookie) only when the
\* record is present and the password verifies against its stored hash; with
\* an absent record or a failed verification login ends in the
\* invalid-credentials error and no token is created, set or returned.
C2_LoginOutcome ==
    last.op = "login" =>
        /\ (last.exc = None \/ last.access_token # NoToken \/ last.cookie # NoToken)
              => LastLoginVerifies
        /\ (Falsy(last.db_user) \/ LastLoginMismatch)
              => /\ last.error = InvalidCredentials
                 /\ last.access_token = NoToken
                 /\ last.cookie = NoToken

C2_TokenCreation ==
    tokens' # tokens =>
        /\ last'.op = "login"
        /\ last'.exc = None
        /\ ~Falsy(last'.db_user)
        /\ verify_password(last'.user.password, last'.db_user.hash_password).value
        /\ tokens' = Append(tokens, last'.access_token)
        /\ last'.cookie = last'.access_token

C2_TokenOnlyIfVerified == []C2_LoginOutcome /\ [][C2_TokenCreation]_vars

C2_Witness ==
    /\ last.op = "login"
    /\ LastLoginMismatch
    /\ Len(tokens) > 0

\* C3: the claims of the token a successful login issues are the public
\* fields (id, username, email, role) of the user record as read at that
\* login; in particular the token's role is the record's role.
C3_ClaimsArePublicFields ==
    (last.op = "login" /\ last.exc = None) =>
        /\ DOMAIN last.access_token.subject = {"id", "username", "email", "role"}
        /\ last.access_token.subject.id = last.db_user.id
        /\ last.access_token.subject.username = last.db_user.username
        /\ last.access_token.subject.email = last.db_user.email
        /\ last.access_token.subject.role = last.db_user.role
        /\ tokens[Len(tokens)] = last.access_token

C3_Witness ==
    /\ last.op = "login"
    /\ last.exc = None
    /\ last.db_user.role = "admin"

\* C4: is_admin holds exactly for role admin, is_seller exactly for admin and
\* seller, is_customer exactly for admin and customer.
C4_RoleHierarchy ==
    /\ last.op = "is_admin" => (last.value <=> CheckedRole = "admin")
    /\ last.op = "is_seller" => (last.value <=> CheckedRole \in {"admin", "seller"})
    /\ last.op = "is_customer" => (last.value <=> CheckedRole \in {"admin", "customer"})

C4_Witness ==
    /\ last.op = "is_customer"
    /\ CheckedRole = "admin"
    /\ last.value

\* C5: is_R_or_raise raises exactly when is_R is false and returns without an
\* error exactly when is_R is true.
C5_RaiseAgreesWithBool ==
    LET self == Authorization(last.credentials)
        holds == IF last.op = "is_admin_or_raise" THEN is_admin(self)
                 ELSE IF last.op = "is_seller_or_raise" THEN is_seller(self)
                 ELSE is_customer(self)
    IN last.op \in RaiseOps =>
          /\ (last.exc = "HTTPException") <=> ~holds
          /\ (last.exc = None) <=> holds

C5_Witness ==
    /\ last.op = "is_seller_or_raise"
    /\ CheckedRole = "admin"
    /\ last.exc = None

\* C6: with a missing role or a role outside {admin, seller, customer} every
\* boolean check is false and every raising check raises.
C6_UnknownRoleFailsClosed ==
    (last.op \in BoolOps \cup RaiseOps /\ CheckedRole \notin {"admin", "seller", "customer"}) =>
        /\ last.op \in BoolOps => ~last.value
        /\ last.op \in RaiseOps => last.exc = "HTTPException"

C6_Witness ==
    /\ last.op = "is_seller"
    /\ "role" \notin DOMAIN last.credentials.subject
    /\ ~last.value

\* C7: a valid token whose role does not satisfy the required role is
\* answered with a forbidden status, distinct from the unauthenticated status
\* of a failed login.
C7_ForbiddenDistinctFromUnauthenticated ==
    (last.op \in RaiseOps /\ last.exc = "HTTPException") =>
        /\ last.error.status_code = 403
        /\ last.error.status_code # InvalidCredentials.status_code

\* C8: with an existing record whose stored hash is malformed, login gives
\* the caller the invalid-credentials error, lets no other error escape and
\* issues no token.
C8_MalformedHashFailsClosed ==
    (last.op = "login" /\ ~Falsy(last.db_user)
        /\ last.db_user.hash_password = MalformedDigest) =>
        /\ last.error = InvalidCredentials
        /\ last.access_token = NoToken
        /\ last.cookie = NoToken

\* C9: the claims of a minted token never change; a check made with a token
\* is decided by the role embedded at issuance, whatever the record's role is
\* now; a changed role shows only in tokens issued by a later login.
C9_Frozen ==
    \A i \in 1..Len(tokens) : i <= Len(tokens') /\ tokens'[i] = tokens[i]

C9_NewTokenHasCurrentRole ==
    Len(tokens') > Len(tokens) =>
        LET t == tokens'[Len(tokens')]
        IN t.subject.role = users[t.subject.username].role

C9_DecidedByEmbeddedRole ==
    LET embedded == \E i \in 1..Len(tokens) : tokens[i] = last.credentials
    IN /\ last.op \in BoolOps =>
            /\ embedded
            /\ last.value <=> RoleSatisfies(last.credentials.subject.role, RequiredBy(last.op))
       /\ last.op \in RaiseOps =>
            /\ embedded
            /\ (last.exc = None)
                 <=> RoleSatisfies(last.credentials.subject.role, RequiredBy(last.op))

C9_StaleClaims ==
    /\ []C9_DecidedByEmbeddedRole
    /\ [][C9_Frozen /\ C9_NewTokenHasCurrentRole]_vars

C9_Witness ==
    /\ last.op = "is_admin"
    /\ last.value
    /\ ~Falsy(users[last.credentials.subject.username])
    /\ users[last.credentials.subject.username].role = "customer"

\* C10: login and the role checks leave the user store unchanged; only the
\* store itself changes a user record.
C10_StoreUntouched ==
    [][(last' # last \/ tokens' # tokens \/ observed' # observed) => users' = users]_vars

C10_Witness ==
    /\ last.op = "is_customer_or_raise"
    /\ Len(tokens) = MaxTokens
    /\ \E a \in observed : a[1] = "mismatch"
    /\ ~Falsy(users[last.credentials.subject.username])

====
